---- MODULE Spec2Model ----
(***************************************************************************)
(* json-schema-test: the execution engine of src/src/index.ts.             *)
(*                                                                         *)
(* The model follows one leaf test: testSchema registers it with the host  *)
(* framework, the host calls its callback, and the callback calls doTest   *)
(* once per validator.  doTest is an async function: it runs               *)
(* synchronously up to its first suspension point (the import of a data    *)
(* file, or the validator's pending promise), and everything it raises     *)
(* becomes the rejection of its own promise.                               *)
(*                                                                         *)
(* Two further specifications cover what happens before a leaf test runs:   *)
(* SpecReg walks the registration calls of jsonSchemaTest and addTests, and *)
(* SpecFiles derives the name of a suite item from the path of its file.    *)
(*                                                                         *)
(* JavaScript values are modelled by tokens: "true", "false", "1" (the     *)
(* number), "undefined", "D" (the test's data object), "P" (a promise      *)
(* object), and the strings "bad", "other".                                *)
(***************************************************************************)
EXTENDS Integers, Sequences, FiniteSets, TLC

\* Bounds of the model: the longest validator list, the longest list
\* group.schemas, and the deepest file path.
MaxValidators == 2

MaxSchemas == 2

MaxDepth == 3

VARIABLES
    opts,        \* the options read by the engine
    isArray,     \* Array.isArray(validators)
    validators,  \* the validator instances, in list order
    test,        \* the test case of the leaf
    leaf,        \* the leaf test as the host sees it
    runs,        \* per validator of the list: the doTest call
    verrors,     \* per validator instance: validator.errors
    events,      \* the classifications made by the last step, in order
    reg,         \* the walk of jsonSchemaTest and addTests over the suites
    found        \* a file found by getTestFiles and the name derived for it

vars == <<opts, isArray, validators, test, leaf, runs, verrors, events,
          reg, found>>

----------------------------------------------------------------------------
\* JavaScript values and comparisons

JTrue == "true"
JFalse == "false"
JOne == "1"
JUndef == "undefined"
JData == "D"
JPromise == "P"

\* Values that are falsy under ToBoolean.
Falsy == {JFalse, JUndef}

Truthy(v) == v \notin Falsy

\* x === y : same type and same value; objects by identity.
StrictEq(x, y) == x = y

\* The values that ToNumber converts to a number other than NaN.
Numeric == {JTrue, JFalse, JOne}

ToNumber(v) == IF v = JFalse THEN 0 ELSE 1

\* x == y : booleans are converted to numbers before comparison; objects
\* and the strings of the model convert to NaN and equal only themselves.
LooseEq(x, y) ==
    \/ x = y
    \/ x \in Numeric /\ y \in Numeric /\ ToNumber(x) = ToNumber(y)

\* An error-detail list, or null/undefined.
ErrNull == [nullish |-> TRUE, items |-> <<>>]

ErrList(s) == [nullish |-> FALSE, items |-> s]

----------------------------------------------------------------------------
\* Inputs

\* What a validate call leaves on validator.errors.  An empty list is read
\* as null is at index.ts 257-258; it differs from null at index.ts 236 and
\* is kept among the rejection values below.
ErrorValues == {ErrNull, ErrList(<<"e">>)}

\* Values a validator returns or its promise fulfils with.
RawValues == {JTrue, JFalse, JOne, JData}

\* What one validate call does: return a value, return a promise, or raise;
\* errors is what the call leaves on validator.errors.
Behaviours ==
    [kind : {"return"}, value : RawValues, errors : ErrorValues]
      \cup [kind : {"promise"}, value : {JPromise}, errors : ErrorValues]
      \cup [kind : {"throw"}, value : {JUndef}, errors : {ErrNull}]

\* Rejection values: an object with an errors list, or one with a message
\* or without.
Rejections ==
    [message : {JUndef}, errors : {ErrList(<<>>), ErrList(<<"e">>)}]
      \cup [message : {JUndef, "bad", "other"}, errors : {ErrNull}]

\* Test cases: an expected validity, an expected error, or both.  data is
\* the value given to validate: an object, or the boolean false.
TestCases ==
    {tc \in [valid : {JTrue, JFalse, JUndef}, error : {JUndef, "bad"},
             dataFile : BOOLEAN, data : {JData, JFalse},
             skip : {JUndef}, only : {JUndef}] :
       tc.valid # JUndef \/ tc.error # JUndef}

Options ==
    [async : BOOLEAN, asyncValid : {JUndef, "data"},
     afterEach : BOOLEAN, afterError : BOOLEAN]

\* The validator instances.  The engine reads nothing of a validator but
\* validator.errors, and what a validate call does is chosen call by call,
\* so a list repeats one instance, as the lists [ajv, ajv] of
\* spec/test.pass.spec.ts do: the case in which the runs share
\* validator.errors.
Instances == {"ajv"}

ValidatorLists ==
    {[i \in 1..n |-> inst] : n \in 1..MaxValidators, inst \in Instances}

NV == Len(validators)

----------------------------------------------------------------------------
\* State of one doTest call and of the leaf test

NoResult ==
    [built |-> FALSE, passed |-> FALSE, validator |-> "", valid |-> JUndef,
     expected |-> JUndef, expectedError |-> JUndef, errors |-> ErrNull]

\* pc: "idle" not called, "import" suspended on the data file, "then"
\* suspended on the validator's promise, "fulfilled"/"rejected" the promise
\* of doTest has settled.
\* reason: why it rejected: "throw" validate raised, "assert" the check of
\* the error details failed, "equal" the final equality assertion failed.
\* results, each, error: the TestResults built and the hook calls made.
IdleRun ==
    [pc |-> "idle", reason |-> "", results |-> 0, each |-> 0, error |-> 0]

Settled(r) == r.pc \in {"fulfilled", "rejected"}

\* status: "unregistered", "registered", "calling" (the callback is
\* executing, at the doTest call for validator at), "called" (the callback
\* has returned), "passed", "failed".  returned: what the callback returned.
\* join, by: the state of the returned promise and the run that rejected it.
IdleLeaf ==
    [status |-> "unregistered", variant |-> "", at |-> 0, returned |-> "",
     join |-> "pending", by |-> 0]

Count(s, x) == Cardinality({k \in 1..Len(s) : s[k] = x})

----------------------------------------------------------------------------
\* suiteHooks (index.ts 300-323)

\* Variant: afterError is called before afterEach.
SuiteHooksSwapped(passed) ==
    (IF opts.afterError /\ ~passed THEN <<"afterError">> ELSE <<>>)
      \o (IF opts.afterEach THEN <<"afterEach">> ELSE <<>>)

\* Variant: afterEach is called a second time after afterError.
SuiteHooksTwice(passed) ==
    (IF opts.afterEach THEN <<"afterEach">> ELSE <<>>)
      \o (IF opts.afterError /\ ~passed THEN <<"afterError">> ELSE <<>>)
      \o (IF opts.afterEach /\ ~passed THEN <<"afterEach">> ELSE <<>>)

\* The hook calls made for one result, in order.
SuiteHooks(passed) ==
    (IF opts.afterEach THEN <<"afterEach">> ELSE <<>>)
      \o (IF opts.afterError /\ ~passed THEN <<"afterError">> ELSE <<>>)

\* The result record built by suiteHooks.
MakeResult(passed, inst, tc, valid, errors) ==
    [built |-> TRUE, passed |-> passed, validator |-> inst, valid |-> valid,
     expected |-> tc.valid, expectedError |-> tc.error, errors |-> errors]

----------------------------------------------------------------------------
\* testResults (index.ts 244-271) and testException (index.ts 274-298)

\* Variant: only a valid outcome is checked against the error details.
ErrorsConsistentValidOnly(valid, errors) ==
    Truthy(valid) => (errors.nullish \/ Len(errors.items) = 0)

\* The check of index.ts 257-258 on validity against the error details.
ErrorsConsistent(valid, errors) ==
    IF Truthy(valid)
      THEN errors.nullish \/ Len(errors.items) = 0
      ELSE ~errors.nullish /\ Len(errors.items) > 0

\* Variant: the override is applied whatever the test case expects.
OverrideAlways(tc, valid) ==
    IF opts.asyncValid = "data"
      THEN (IF StrictEq(valid, tc.data) THEN JTrue ELSE JFalse)
      ELSE valid

\* asyncValid override (index.ts 245-246).
Override(tc, valid) ==
    IF opts.asyncValid = "data" /\ StrictEq(tc.valid, JTrue)
      THEN (IF StrictEq(valid, tc.data) THEN JTrue ELSE JFalse)
      ELSE valid

\* Variant: passed is computed with == instead of ===.
PassedLoose(valid, tc) == LooseEq(valid, tc.valid)

\* index.ts 247
Passed(valid, tc) == StrictEq(valid, tc.valid)

\* assert.equal of node:assert (index.ts 270, 297) compares with ==.
AssertEqual(x, y) == LooseEq(x, y)

\* An event: what one classification did.  proto is the protocol it came
\* from: "sync", "fulfilled", "rejected" (a rejection with error details),
\* "exception" (one without), "raise" (validate raised, nothing classified).
\* raw is the validity given to testResults, given the error details of the
\* validator or of the rejection, message the message of the rejection; ok
\* tells that no assertion failed.
Event(i, proto, raw, given, message, ok, calls, result) ==
    [i |-> i, proto |-> proto, raw |-> raw, given |-> given,
     message |-> message, ok |-> ok, calls |-> calls, result |-> result]

\* testResults(valid0, errors).
TestResultsEvent(i, inst, tc, valid0, errors, proto) ==
    LET valid == Override(tc, valid0)
        passed == Passed(valid, tc)
    IN  IF ~ErrorsConsistent(valid, errors)
          THEN Event(i, proto, valid0, errors, JUndef, FALSE, <<>>, NoResult)
          ELSE Event(i, proto, valid0, errors, JUndef,
                     AssertEqual(valid, tc.valid), SuiteHooks(passed),
                     MakeResult(passed, inst, tc, valid, errors))

\* index.ts 283
ExceptionPassed(err, tc) == LooseEq(err.message, tc.error)

\* testException(err).
TestExceptionEvent(i, inst, tc, err) ==
    LET passed == ExceptionPassed(err, tc)
    IN  Event(i, "exception", JUndef, err.errors, err.message,
              AssertEqual(err.message, tc.error), SuiteHooks(passed),
              MakeResult(passed, inst, tc, JUndef, ErrNull))

\* Variant: an empty errors list on the rejection counts as none.
CarriesErrorsNonEmpty(err) ==
    ~err.errors.nullish /\ Len(err.errors.items) > 0

\* index.ts 236: if (err.errors); a list is truthy, also when empty.
CarriesErrors(err) == ~err.errors.nullish

\* index.ts 235-238: the rejection handler.
OnRejected(i, inst, tc, err) ==
    IF CarriesErrors(err)
      THEN TestResultsEvent(i, inst, tc, JFalse, err.errors, "rejected")
      ELSE TestExceptionEvent(i, inst, tc, err)

\* The doTest call after the classification e: its promise settles.
Classified(run, e) ==
    [run EXCEPT
       !.pc = IF e.ok THEN "fulfilled" ELSE "rejected",
       !.reason = IF e.ok THEN ""
                  ELSE IF e.result.built THEN "equal" ELSE "assert",
       !.results = @ + (IF e.result.built THEN 1 ELSE 0),
       !.each = @ + Count(e.calls, "afterEach"),
       !.error = @ + Count(e.calls, "afterError")]

----------------------------------------------------------------------------
\* Variant: skip is looked at before only.
SkipOrOnlySkipFirst(filter) ==
    IF filter.skip = JTrue THEN "skip"
    ELSE IF filter.only = JTrue THEN "only"
    ELSE "normal"

\* skipOrOnly (index.ts 347-353): the variant of the primitive that is used.
SkipOrOnly(filter) ==
    IF filter.only = JTrue THEN "only"
    ELSE IF filter.skip = JTrue THEN "skip"
    ELSE "normal"

----------------------------------------------------------------------------
\* doTest (index.ts 208-243)

\* Variant: the error details are those the validator held before the call.
ValidateStale(acc, i, b) ==
    LET inst == validators[i]
        run == acc.runs[i]
        ve == [acc.verrors EXCEPT ![inst] = b.errors]
        e == TestResultsEvent(i, inst, test, b.value, acc.verrors[inst], "sync")
    IN  IF b.kind = "throw"
          THEN [acc EXCEPT
                  !.runs[i] = [run EXCEPT !.pc = "rejected", !.reason = "throw"],
                  !.events = Append(@, Event(i, "raise", JUndef, ErrNull,
                                             JUndef, FALSE, <<>>, NoResult))]
        ELSE IF opts.async /\ b.kind = "promise"
          THEN [acc EXCEPT !.runs[i] = [run EXCEPT !.pc = "then"],
                           !.verrors = ve]
        ELSE [runs |-> [acc.runs EXCEPT ![i] = Classified(run, e)],
              verrors |-> ve,
              events |-> Append(acc.events, e)]

\* index.ts 225-242: the validate call and what follows it without
\* suspension.  acc holds the runs, validator.errors and the events.
Validate(acc, i, b) ==
    LET inst == validators[i]
        run == acc.runs[i]
        ve == [acc.verrors EXCEPT ![inst] = b.errors]
        e == TestResultsEvent(i, inst, test, b.value, ve[inst], "sync")
    IN  IF b.kind = "throw"
          THEN [acc EXCEPT
                  !.runs[i] = [run EXCEPT !.pc = "rejected", !.reason = "throw"],
                  !.events = Append(@, Event(i, "raise", JUndef, ErrNull,
                                             JUndef, FALSE, <<>>, NoResult))]
        ELSE IF opts.async /\ b.kind = "promise"
          THEN [acc EXCEPT !.runs[i] = [run EXCEPT !.pc = "then"],
                           !.verrors = ve]
        ELSE [runs |-> [acc.runs EXCEPT ![i] = Classified(run, e)],
              verrors |-> ve,
              events |-> Append(acc.events, e)]

\* index.ts 216-242: doTest up to its first suspension point.
DoTest(acc, i, b) ==
    IF test.dataFile
      THEN [acc EXCEPT !.runs[i].pc = "import"]
      ELSE Validate(acc, i, b)

----------------------------------------------------------------------------
\* The promise the leaf callback returns (index.ts 189-203)

Min(S) == CHOOSE x \in S : \A y \in S : x <= y

Rejected(rs) == {i \in 1..NV : rs[i].pc = "rejected"}

\* Variant: the join rejects with the last rejection of the list.
PromiseAllLast(lf, rs) ==
    IF lf.join # "pending" THEN lf
    ELSE IF Rejected(rs) # {}
      THEN [lf EXCEPT !.join = "rejected",
                      !.by = CHOOSE x \in Rejected(rs) :
                               \A y \in Rejected(rs) : x >= y]
    ELSE IF \A i \in 1..NV : rs[i].pc = "fulfilled"
      THEN [lf EXCEPT !.join = "fulfilled"]
    ELSE lf

\* Promise.all over the doTest promises (a single doTest promise is the
\* same join over one): once settled it stays; it rejects with the first
\* rejection, and fulfils when every doTest promise has fulfilled.
PromiseAll(lf, rs) ==
    IF lf.join # "pending" THEN lf
    ELSE IF Rejected(rs) # {}
      THEN [lf EXCEPT !.join = "rejected", !.by = Min(Rejected(rs))]
    ELSE IF \A i \in 1..NV : rs[i].pc = "fulfilled"
      THEN [lf EXCEPT !.join = "fulfilled"]
    ELSE lf

\* What the leaf callback returns: nothing when a list is run in non-async
\* mode (index.ts 196-200), else a promise.
Returned == IF isArray /\ ~opts.async THEN "undefined" ELSE "promise"

\* The leaf record after the runs changed to rs.
Join(lf, rs) == IF lf.returned = "promise" THEN PromiseAll(lf, rs) ELSE lf

----------------------------------------------------------------------------
\* Registration: jsonSchemaTest (index.ts 81-107), addTests (index.ts 109-176)

\* The suite items of the one suite, in order.
Items == <<"s", "t">>

\* options.skip and options.only: absent, true, or a list of item names.
OptFilters ==
    {[kind |-> "undefined", names |-> {}], [kind |-> "true", names |-> {}],
     [kind |-> "list", names |-> {"s"}], [kind |-> "list", names |-> {"s", "t"}]}

\* The JavaScript value of such an option; "list" is an array object.
OptValue(f) ==
    IF f.kind = "true" THEN JTrue
    ELSE IF f.kind = "list" THEN "list"
    ELSE JUndef

\* The skip and only fields a test group or a test case may carry.
FieldValues == {JUndef, JTrue, JOne}

Filters == [skip : FieldValues, only : FieldValues]

\* A schema of group.schemas, by the fields its label is taken from.
Schemas ==
    [description : {JUndef, "d"}, id : {JUndef, "i"}, ref : {JUndef, "r"}]

NoSchema == [description |-> JUndef, id |-> JUndef, ref |-> JUndef]

\* Variant: true also when the option is the boolean true.
GetFileFilterGlobal(name, f) ==
    IF f.kind = "true" \/ (f.kind = "list" /\ name \in f.names)
      THEN JTrue ELSE JFalse

\* getFileFilter (index.ts 338-345)
GetFileFilter(name, f) ==
    IF f.kind = "list" /\ name \in f.names THEN JTrue ELSE JFalse

\* Variant: the id is preferred to the description.
SchemaLabelIdFirst(sch, i) ==
    IF sch.id # JUndef THEN <<"schema ", sch.id>>
    ELSE IF sch.description # JUndef THEN <<"schema ", sch.description>>
    ELSE IF sch.ref # JUndef THEN <<"schema ", sch.ref>>
    ELSE <<"schema ", "#", i>>

\* index.ts 148: description || id || $ref || "#" + i, after "schema ".
SchemaLabel(sch, i) ==
    IF sch.description # JUndef THEN <<"schema ", sch.description>>
    ELSE IF sch.id # JUndef THEN <<"schema ", sch.id>>
    ELSE IF sch.ref # JUndef THEN <<"schema ", sch.ref>>
    ELSE <<"schema ", "#", i>>

\* Variant: the resolver's choice is ignored.
ResolvedNormal(level, label, filter) ==
    [level |-> level, label |-> label, variant |-> "normal",
     via |-> "resolver", filter |-> filter, schema |-> NoSchema, index |-> 0]

\* A registration call skipOrOnly(filter, func)(label, ...).
Resolved(level, label, filter) ==
    [level |-> level, label |-> label, variant |-> SkipOrOnly(filter),
     via |-> "resolver", filter |-> filter, schema |-> NoSchema, index |-> 0]

\* A registration call opts.describe(label, ...).
Direct(level, label, sch, i) ==
    [level |-> level, label |-> label, variant |-> "normal",
     via |-> "direct", filter |-> [skip |-> JUndef, only |-> JUndef],
     schema |-> sch, index |-> i]

NoCall == Direct("", <<>>, NoSchema, 0)

\* pc: where the walk is; k: the item; n: the length of group.schemas, or
\* -1 when it is not an array; i: the schemas expanded so far; ran: the
\* testSchema calls made for the group; path: the enclosing registrations;
\* call: the last registration call.
IdleReg ==
    [pc |-> "off", skip |-> [kind |-> "undefined", names |-> {}],
     only |-> [kind |-> "undefined", names |-> {}],
     k |-> 0, n |-> 0, i |-> 0, ran |-> 0, path |-> <<>>, call |-> NoCall]

\* The registration c entered below the first d levels of the path.
Enter(d, c) == Append(SubSeq(reg.path, 1, d), [level |-> c.level, variant |-> c.variant])

----------------------------------------------------------------------------
\* getTestFiles (index.ts 325-336): file names are sequences of characters

\* The characters of the class [\w\-_] that occur in the file names.
WordChars == {"a", "b", "c", "d", "j", "s", "o", "n"}

\* Variant: the class also holds the dot.
IsWordOrDot(c) == c \in WordChars \cup {"."}

IsWord(c) == c \in WordChars

Ext == <<".", "j", "s", "o", "n">>

\* Directory and file names.
Segments == {<<"a">>, <<"b">>, <<"c">>, <<"c", ".", "d">>}

Paths == UNION {[1..n -> Segments] : n \in 1..MaxDepth}

HideFolders == {<<>>, <<"b", "/">>, <<"b">>}

RECURSIVE JoinPath(_)
JoinPath(segs) ==
    IF Len(segs) = 1 THEN segs[1]
    ELSE segs[1] \o <<"/">> \o JoinPath(Tail(segs))

\* What glob.sync returns for the file: the relative path.
FileOf(segs) == JoinPath(segs) \o Ext

AllWord(f, i, j) == i <= j /\ \A x \in i..j : IsWord(f[x])

\* The matches of /([\w\-_]+\/)[\w\-_]+\.json/ in f, as <<start, slash>>.
Matches(f) ==
    {m \in (1..Len(f)) \X (1..Len(f)) :
       /\ AllWord(f, m[1], m[2] - 1)
       /\ f[m[2]] = "/"
       /\ \E k \in (m[2] + 2)..(Len(f) - 4) :
            AllWord(f, m[2] + 1, k - 1) /\ SubSeq(f, k, k + 4) = Ext}

\* match ? match[1] : "" (index.ts 329): the leftmost match.
Folder(f) ==
    IF Matches(f) = {} THEN <<>>
    ELSE LET m == CHOOSE x \in Matches(f) : \A y \in Matches(f) : x[1] <= y[1]
         IN  SubSeq(f, m[1], m[2])

\* path.basename(file, ".json")
Basename(f) ==
    LET slashes == {x \in 1..Len(f) : f[x] = "/"}
        from == IF slashes = {} THEN 1
                ELSE 1 + CHOOSE x \in slashes : \A y \in slashes : y <= x
        base == SubSeq(f, from, Len(f))
    IN  IF Len(base) > 5 /\ SubSeq(base, Len(base) - 4, Len(base)) = Ext
          THEN SubSeq(base, 1, Len(base) - 5)
          ELSE base

\* index.ts 328-333: the name of the suite item.
FileName(f, hideFolder) ==
    LET folder == Folder(f)
        shown == IF hideFolder # <<>> /\ folder = hideFolder THEN <<>> ELSE folder
    IN  shown \o Basename(f)

IdleFound == [file |-> <<>>, hideFolder |-> <<>>, name |-> <<>>, done |-> FALSE]

----------------------------------------------------------------------------
\* Actions

Init ==
    /\ opts \in Options
    /\ isArray \in BOOLEAN
    /\ validators \in ValidatorLists
    /\ ~isArray => Len(validators) = 1
    /\ test \in TestCases
    \* The engine reads the data only at index.ts 246: elsewhere the object
    \* stands for every value.
    /\ test.data # JData => opts.asyncValid = "data" /\ test.valid = JTrue
    /\ leaf = IdleLeaf
    /\ runs = [i \in 1..MaxValidators |-> IdleRun]
    /\ verrors = [v \in Instances |-> ErrNull]
    /\ events = <<>>
    /\ reg = IdleReg
    /\ found = IdleFound

\* testSchema (index.ts 187-188): the test case is registered as a leaf test.
TestSchema ==
    /\ leaf.status = "unregistered"
    /\ leaf' = [leaf EXCEPT !.status = "registered",
                            !.variant = SkipOrOnly(test)]
    /\ events' = <<>>
    /\ UNCHANGED <<reg, found, opts, isArray, validators, test, runs, verrors>>

\* The host calls the leaf callback (index.ts 188).
StartLeaf ==
    /\ leaf.status = "registered"
    /\ leaf.variant # "skip"
    /\ leaf' = [leaf EXCEPT !.status = "calling", !.at = 1]
    /\ events' = <<>>
    /\ UNCHANGED <<reg, found, opts, isArray, validators, test, runs, verrors>>

\* The callback is executing: nothing else runs until it returns.
Busy == leaf.status = "calling"

\* The callback calls doTest for the next validator of the list; the call
\* returns at doTest's first suspension point and is not awaited
\* (index.ts 192-193, 197-199, 202).
CallDoTest ==
    /\ leaf.status = "calling"
    /\ leaf.at <= NV
    /\ \E b \in (IF test.dataFile THEN {CHOOSE x \in Behaviours : TRUE}
                 ELSE Behaviours) :
         LET acc == DoTest([runs |-> runs, verrors |-> verrors,
                            events |-> <<>>], leaf.at, b)
         IN  /\ runs' = acc.runs
             /\ verrors' = acc.verrors
             /\ events' = acc.events
    /\ leaf' = [leaf EXCEPT !.at = @ + 1]
    /\ UNCHANGED <<reg, found, opts, isArray, validators, test>>

\* The callback returns (index.ts 191, 200, 202).
ReturnLeaf ==
    /\ leaf.status = "calling"
    /\ leaf.at > NV
    /\ leaf' = Join([leaf EXCEPT !.status = "called", !.at = 0,
                                 !.returned = Returned], runs)
    /\ events' = <<>>
    /\ UNCHANGED <<reg, found, opts, isArray, validators, test, runs, verrors>>

\* The import of the data file resolves and doTest resumes (index.ts 220).
DataLoaded(i) ==
    /\ ~Busy
    /\ runs[i].pc = "import"
    /\ \E b \in Behaviours :
         LET acc == Validate([runs |-> runs, verrors |-> verrors,
                              events |-> <<>>], i, b)
         IN  /\ runs' = acc.runs
             /\ verrors' = acc.verrors
             /\ events' = acc.events
             /\ leaf' = Join(leaf, acc.runs)
    /\ UNCHANGED <<reg, found, opts, isArray, validators, test>>

\* The validator's promise fulfils (index.ts 232-234).
ValidFulfilled(i) ==
    /\ ~Busy
    /\ runs[i].pc = "then"
    /\ \E v \in RawValues :
         LET e == TestResultsEvent(i, validators[i], test, v, ErrNull,
                                   "fulfilled")
             rs == [runs EXCEPT ![i] = Classified(@, e)]
         IN  /\ runs' = rs
             /\ events' = <<e>>
             /\ leaf' = Join(leaf, rs)
    /\ UNCHANGED <<reg, found, opts, isArray, validators, test, verrors>>

\* The validator's promise rejects (index.ts 235-238).
ValidRejected(i) ==
    /\ ~Busy
    /\ runs[i].pc = "then"
    /\ \E err \in Rejections :
         LET e == OnRejected(i, validators[i], test, err)
             rs == [runs EXCEPT ![i] = Classified(@, e)]
         IN  /\ runs' = rs
             /\ events' = <<e>>
             /\ leaf' = Join(leaf, rs)
    /\ UNCHANGED <<reg, found, opts, isArray, validators, test, verrors>>

\* The host regards the leaf as complete: its callback returned nothing, or
\* the promise it returned has settled.
LeafComplete ==
    /\ leaf.status = "called"
    /\ leaf.returned = "undefined" \/ leaf.join # "pending"
    /\ leaf' = [leaf EXCEPT !.status =
                  IF leaf.join = "rejected" THEN "failed" ELSE "passed"]
    /\ events' = <<>>
    /\ UNCHANGED <<reg, found, opts, isArray, validators, test, runs, verrors>>

Next ==
    \/ TestSchema
    \/ StartLeaf
    \/ CallDoTest
    \/ ReturnLeaf
    \/ \E i \in 1..NV : DataLoaded(i)
    \/ \E i \in 1..NV : ValidFulfilled(i)
    \/ \E i \in 1..NV : ValidRejected(i)
    \/ LeafComplete

Spec == Init /\ [][Next]_vars

----------------------------------------------------------------------------
\* The walk over the suites, before any leaf test is executed

leafVars == <<opts, isArray, validators, test, leaf, runs, verrors, events>>

\* No leaf test has been registered yet.
LeafIdle ==
    /\ opts = [async |-> FALSE, asyncValid |-> JUndef,
               afterEach |-> FALSE, afterError |-> FALSE]
    /\ isArray = FALSE
    /\ validators = <<"ajv">>
    /\ test = [valid |-> JTrue, error |-> JUndef, dataFile |-> FALSE,
               data |-> JData, skip |-> JUndef, only |-> JUndef]
    /\ leaf = IdleLeaf
    /\ runs = [i \in 1..MaxValidators |-> IdleRun]
    /\ verrors = [v \in Instances |-> ErrNull]
    /\ events = <<>>

InitReg ==
    /\ LeafIdle
    /\ found = IdleFound
    /\ \E sk \in OptFilters, on \in OptFilters :
         reg = [IdleReg EXCEPT !.pc = "start", !.skip = sk, !.only = on]

\* index.ts 92: the top-level group, filtered by the options themselves.
JsonSchemaTest ==
    /\ reg.pc = "start"
    /\ LET c == Resolved("top", <<"JSON schema tests">>,
                         [skip |-> OptValue(reg.skip), only |-> OptValue(reg.only)])
       IN  reg' = [reg EXCEPT !.pc = "suite", !.call = c, !.path = Enter(0, c)]
    /\ UNCHANGED <<leafVars, found>>

\* index.ts 117: the group of the suite.
AddTests ==
    /\ reg.pc = "suite"
    /\ LET c == Direct("suite", <<"tests">>, NoSchema, 0)
       IN  reg' = [reg EXCEPT !.pc = "file", !.k = 1, !.call = c,
                              !.path = Enter(1, c)]
    /\ UNCHANGED <<leafVars, found>>

\* index.ts 122-128: the next suite item.
AddFile ==
    /\ \/ reg.pc = "file"
       \/ reg.pc = "groupdone" /\ reg.k <= Len(Items)
    /\ reg.k <= Len(Items)
    /\ LET name == Items[reg.k]
           c == Resolved("item", <<name>>,
                         [skip |-> GetFileFilter(name, reg.skip),
                          only |-> GetFileFilter(name, reg.only)])
       IN  reg' = [reg EXCEPT !.pc = "group", !.call = c, !.path = Enter(2, c)]
    /\ UNCHANGED <<leafVars, found>>

\* index.ts 142-144: a test group of the item; n is the length of
\* group.schemas, -1 when it is not an array.
AddGroup ==
    /\ reg.pc = "group"
    /\ \E f \in Filters, n \in -1..MaxSchemas :
         LET c == Resolved("group", <<"group">>, f)
         IN  reg' = [reg EXCEPT
                       !.pc = IF n = -1 THEN "tests"
                              ELSE IF n = 0 THEN "groupdone" ELSE "schemas",
                       !.k = IF n = 0 THEN @ + 1 ELSE @,
                       !.n = n, !.i = 0, !.ran = 0,
                       !.call = c, !.path = Enter(3, c)]
    /\ UNCHANGED <<leafVars, found>>

\* index.ts 145-149: the nested group of the next schema of group.schemas.
AddSchema ==
    /\ reg.pc = "schemas"
    /\ reg.i < reg.n
    /\ \E sch \in Schemas :
         LET c == Direct("schema", SchemaLabel(sch, reg.i), sch, reg.i)
         IN  reg' = [reg EXCEPT !.pc = "tests", !.call = c, !.path = Enter(4, c)]
    /\ UNCHANGED <<leafVars, found>>

\* index.ts 150 and 162, 187-188: testSchema registers the test case of the
\* group as a leaf test.
RegisterTest ==
    /\ reg.pc = "tests"
    /\ \E f \in Filters :
         LET c == Resolved("test", <<"test">>, f)
             last == reg.n = -1 \/ reg.i + 1 >= reg.n
         IN  reg' = [reg EXCEPT
                       !.pc = IF last THEN "groupdone" ELSE "schemas",
                       !.k = IF last THEN @ + 1 ELSE @,
                       !.i = IF reg.n = -1 THEN @ ELSE @ + 1,
                       !.ran = @ + 1,
                       !.call = c,
                       !.path = Append(reg.path, [level |-> c.level,
                                                  variant |-> c.variant])]
    /\ UNCHANGED <<leafVars, found>>

NextReg ==
    \/ JsonSchemaTest
    \/ AddTests
    \/ AddFile
    \/ AddGroup
    \/ AddSchema
    \/ RegisterTest

SpecReg == InitReg /\ [][NextReg]_vars

----------------------------------------------------------------------------
\* The names of the files of a suite given by a pattern

InitFiles ==
    /\ LeafIdle
    /\ reg = IdleReg
    /\ \E segs \in Paths, h \in HideFolders :
         found = [file |-> FileOf(segs), hideFolder |-> h,
                  name |-> <<>>, done |-> FALSE]

\* index.ts 327-335: the item made of one file.
GetTestFiles ==
    /\ ~found.done
    /\ found.file # <<>>
    /\ found' = [found EXCEPT !.name = FileName(found.file, found.hideFolder),
                              !.done = TRUE]
    /\ UNCHANGED <<leafVars, reg>>

NextFiles == GetTestFiles

SpecFiles == InitFiles /\ [][NextFiles]_vars

----------------------------------------------------------------------------
\* Properties

\* The classifications made by the last step.
Ev == {events[k] : k \in 1..Len(events)}

\* The validity a classification works with: the value given to testResults,
\* replaced under asyncValid = "data" for a test case expecting true by
\* whether that value is the test's data.
ActualValidity(e) ==
    IF opts.asyncValid = "data" /\ test.valid = JTrue
      THEN (IF e.raw = test.data THEN JTrue ELSE JFalse)
      ELSE e.raw

\* The host regards the leaf test as complete.
Complete == leaf.status \in {"passed", "failed"}

\* C1: every result handed to a hook has passed = TRUE exactly when, in
\* exception mode, the message of the rejection equals the expected error
\* of the test case, and in validity mode, the validity after the
\* asyncValid override equals the expected validity.
C1_PassedIff ==
    \A e \in Ev :
      e.result.built =>
        (e.result.passed <=>
           IF e.proto = "exception"
             THEN e.message = test.error
             ELSE ActualValidity(e) = test.valid)

\* C1: under the asyncValid override a validator returns true, not the data,
\* for a test case expecting true, and the result reaches afterError with
\* passed = FALSE.
C1_Witness ==
    \E e \in Ev :
      /\ e.proto = "sync" /\ e.raw = JTrue /\ test.valid = JTrue
      /\ opts.asyncValid = "data"
      /\ e.result.built /\ ~e.result.passed
      /\ e.calls = <<"afterEach", "afterError">>

\* C2: for every finalized result afterEach is called once when configured
\* and not at all otherwise, afterError is called once when configured and
\* passed is FALSE and not at all otherwise, and no afterError call comes
\* before an afterEach call; a classification that builds no result calls
\* no hook.
C2_HookOrder ==
    \A e \in Ev :
      /\ ~e.result.built => e.calls = <<>>
      /\ e.result.built =>
           /\ Count(e.calls, "afterEach") = (IF opts.afterEach THEN 1 ELSE 0)
           /\ Count(e.calls, "afterError") =
                (IF opts.afterError /\ ~e.result.passed THEN 1 ELSE 0)
           /\ \A j, k \in 1..Len(e.calls) :
                e.calls[j] = "afterEach" /\ e.calls[k] = "afterError" => j < k

\* C2: both hooks are configured and a result with passed = FALSE is
\* finalized from a rejection that carries error details.
C2_Witness ==
    \E e \in Ev :
      /\ e.proto = "rejected" /\ e.result.built /\ ~e.result.passed
      /\ opts.afterEach /\ opts.afterError
      /\ Len(e.calls) = 2

\* C3 as stated: every run in which validate returned or its promise
\* settled has built exactly one result and, when afterEach is configured,
\* called it exactly once.
C3_ExactlyOnce ==
    \A i \in 1..NV :
      Settled(runs[i]) /\ runs[i].reason # "throw" =>
        /\ runs[i].results = 1
        /\ opts.afterEach => runs[i].each = 1

\* C3: a run builds at most one result and calls afterEach at most once; a
\* classification in validity mode builds its result exactly when a truthy
\* validity comes with no or an empty error-detail list, or a falsy validity
\* with a non-empty one; a classification in exception mode always builds
\* it; a run whose classification built a result has built one and called
\* afterEach once when configured, and one whose classification did not has
\* built none and called no hook.
C3_AtMostOnce ==
    /\ \A i \in 1..NV :
         /\ runs[i].results <= 1
         /\ runs[i].each <= 1
         /\ Settled(runs[i]) =>
              /\ runs[i].results =
                   (IF runs[i].reason \in {"throw", "assert"} THEN 0 ELSE 1)
              /\ runs[i].each =
                   (IF opts.afterEach THEN runs[i].results ELSE 0)
              /\ runs[i].error <= runs[i].results
    /\ \A e \in Ev :
         /\ e.proto = "exception" => e.result.built
         /\ e.proto \in {"sync", "fulfilled", "rejected"} =>
              (e.result.built <=>
                 IF ActualValidity(e) \in {JFalse, JUndef}
                   THEN ~e.given.nullish /\ Len(e.given.items) > 0
                   ELSE e.given.nullish \/ Len(e.given.items) = 0)
         /\ Settled(runs[e.i])
         /\ runs[e.i].results = (IF e.result.built THEN 1 ELSE 0)

\* C3: validate returns true while validator.errors holds an error: the
\* run has settled without a result and without a hook call.
C3_Witness ==
    \E e \in Ev :
      /\ e.proto = "sync" /\ e.raw = JTrue /\ opts.asyncValid = JUndef
      /\ ~e.given.nullish
      /\ ~e.result.built
      /\ runs[e.i].pc = "rejected" /\ runs[e.i].results = 0
      /\ opts.afterEach /\ runs[e.i].each = 0

\* C4 as stated: once the host regards the leaf test as complete, every run
\* of the test case has settled, so none of its hook calls is still to come.
C4_HooksBeforeComplete ==
    Complete => \A i \in 1..NV : Settled(runs[i])

\* C5 as stated: with a list of two validators in non-async mode, a leaf
\* test one of whose runs failed the final equality assertion is seen by the
\* host as failed.
C5_DisagreementFailsLeaf ==
    (/\ isArray /\ ~opts.async /\ NV = 2
     /\ Complete
     /\ \E i \in 1..NV : runs[i].pc = "rejected" /\ runs[i].reason = "equal")
      => leaf.status = "failed"

\* C6 as stated: in non-async mode with a validator list the run of
\* validator i+1 has not started while the run of validator i has not
\* settled.
C6_Sequential ==
    isArray /\ ~opts.async =>
      \A i \in 1..(NV - 1) :
        runs[i + 1].pc # "idle" => Settled(runs[i])

\* C7 as stated: in async mode with a validator list, a validator promise
\* that rejects without an error-detail list rejects the join, so the leaf
\* test fails.
C7_RejectionFailsLeaf ==
    opts.async /\ isArray =>
      \A e \in Ev : e.proto = "exception" => leaf.join = "rejected"

\* The states of the join in async mode with a validator list.
C7_State ==
    /\ leaf.returned = "promise" => \A j \in 1..NV : runs[j].pc # "idle"
    /\ \A e \in Ev :
         e.proto \in {"fulfilled", "rejected", "exception"} =>
           \A j \in 1..NV : runs[j].pc # "idle"
    /\ leaf.returned = "promise" =>
         /\ leaf.join = "pending" <=>
              /\ \A j \in 1..NV : runs[j].pc # "rejected"
              /\ \E j \in 1..NV : runs[j].pc # "fulfilled"
         /\ leaf.join = "fulfilled" <=> \A j \in 1..NV : runs[j].pc = "fulfilled"
         /\ leaf.join = "rejected" =>
              leaf.by \in 1..NV /\ runs[leaf.by].pc = "rejected"
    /\ leaf.status = "passed" => leaf.join = "fulfilled"
    /\ leaf.status = "failed" => leaf.join = "rejected"
    /\ \A e \in Ev :
         e.proto = "exception" =>
           (runs[e.i].pc = "rejected" <=> e.message # test.error)
    /\ \A i \in 1..NV :
         /\ leaf.status # "calling" /\ runs[i].pc = "then" =>
              ENABLED ValidFulfilled(i) /\ ENABLED ValidRejected(i)
         /\ leaf.status # "calling" /\ runs[i].pc = "import" =>
              ENABLED DataLoaded(i)

\* The steps of the join in async mode with a validator list.
C7_Step ==
    /\ leaf.join = "pending" /\ leaf'.join = "rejected" =>
         /\ runs'[leaf'.by].pc = "rejected"
         /\ \A j \in 1..NV : runs'[j].pc = "rejected" => j >= leaf'.by
    /\ leaf.join = "rejected" =>
         leaf'.join = "rejected" /\ leaf'.by = leaf.by

\* C7: in async mode with a validator list every run is started before the
\* callback returns and before any run is resumed; the join is pending while
\* no run has rejected and some run has not fulfilled, fulfils when all runs
\* have fulfilled, and rejects with the first run that rejects, for good;
\* the leaf passes or fails as the join does; a validator promise that
\* rejects without an error-detail list rejects its run exactly when its
\* message differs from the expected error of the test case; and a run that
\* is suspended stays resumable after the leaf has failed.
C7_FanOutJoin ==
    /\ [](opts.async /\ isArray => C7_State)
    /\ [][opts.async /\ isArray => C7_Step]_vars

\* C7: the second of two runs has rejected the join, the leaf has failed,
\* and the first run is classified afterwards and calls its hooks.
C7_Witness ==
    /\ opts.async /\ isArray /\ NV = 2
    /\ leaf.status = "failed" /\ leaf.by = 2
    /\ \E e \in Ev : e.i = 1 /\ e.result.built /\ e.calls # <<>>

\* C8 as stated: a run whose validate call raised has built no result and
\* called no hook, and a complete leaf test with such a run has failed.
C8_RaiseFailsLeaf ==
    /\ \A i \in 1..NV :
         runs[i].reason = "throw" =>
           runs[i].results = 0 /\ runs[i].each = 0 /\ runs[i].error = 0
    /\ (Complete /\ \E i \in 1..NV : runs[i].reason = "throw")
         => leaf.status = "failed"

\* C9: a rejection of the validator's promise that carries an error-detail
\* list, empty or not, is given to testResults with validity false and that
\* list, and a result built from it has that list and validity false (but
\* for the asyncValid override of a test case expecting valid = true whose
\* data is itself false); a rejection that carries none is classified in exception mode, where the
\* result has passed = TRUE, the final assertion succeeds and the run
\* fulfils exactly when the message of the rejection equals the expected
\* error of the test case.
C9_RejectionModes ==
    \A e \in Ev :
      e.proto \in {"rejected", "exception"} =>
        /\ opts.async
        /\ ~e.given.nullish =>
             /\ e.proto = "rejected"
             /\ e.raw = JFalse
             /\ e.result.built =>
                  /\ e.result.errors = e.given
                  /\ e.result.valid =
                       (IF /\ opts.asyncValid = "data"
                           /\ test.valid = JTrue /\ test.data = JFalse
                          THEN JTrue ELSE JFalse)
        /\ e.given.nullish =>
             /\ e.proto = "exception"
             /\ e.result.built
             /\ e.result.passed <=> e.message = test.error
             /\ e.ok <=> e.message = test.error
             /\ runs[e.i].pc = "fulfilled" <=> e.message = test.error

\* C9: a test case expecting valid = true and the error "bad" passes in
\* exception mode on a rejection with the message "bad".
C9_Witness ==
    \E e \in Ev :
      /\ e.proto = "exception" /\ e.message = "bad"
      /\ test.valid = JTrue /\ test.error = "bad"
      /\ e.result.passed /\ e.ok /\ runs[e.i].pc = "fulfilled"

C11_PassesIffIdentical ==
    opts.asyncValid = "data" /\ test.valid = JTrue =>
      \A e \in Ev :
        /\ e.proto \in {"sync", "fulfilled"} =>
             ((e.result.built /\ e.result.passed /\ e.ok) <=> e.raw = test.data)
        /\ e.proto = "rejected" =>
             ~(e.result.built /\ e.result.passed /\ e.ok)

\* C11: under asyncValid = "data", for a test case expecting valid = true,
\* the validity is whether the value given to testResults (the returned or
\* fulfilled value, or false for a rejection with an error-detail list) is
\* identical to the data: a built result has that validity and passed
\* accordingly, and the run passes exactly when the value is identical to
\* the data and the error details are none or empty.  For every other test
\* case the validity is the value given, the result is built exactly when
\* the value is consistent with the error details, passed is its identity
\* with the expected validity, and the final assertion is their equality.
C11_AsyncValidData ==
    \A e \in Ev :
      e.proto \in {"sync", "fulfilled", "rejected"} =>
        IF opts.asyncValid = "data" /\ test.valid = JTrue
          THEN /\ e.result.built =>
                    /\ e.result.valid = (IF e.raw = test.data THEN JTrue ELSE JFalse)
                    /\ e.result.passed <=> e.raw = test.data
               /\ (e.result.built /\ e.result.passed /\ e.ok) <=>
                    /\ e.raw = test.data
                    /\ e.given.nullish \/ Len(e.given.items) = 0
          ELSE /\ e.result.built <=>
                    IF e.raw \in {JFalse, JUndef}
                      THEN ~e.given.nullish /\ Len(e.given.items) > 0
                      ELSE e.given.nullish \/ Len(e.given.items) = 0
               /\ e.result.built =>
                    /\ e.result.valid = e.raw
                    /\ e.result.passed <=> e.raw = test.valid
               /\ e.ok <=>
                    /\ e.result.built
                    /\ \/ e.raw = test.valid
                       \/ {e.raw, test.valid} \in {{JOne, JTrue}}

\* C11: the data is false and the test case expects valid = true: a
\* rejection that carries an empty error-detail list is given to testResults
\* as false, which is identical to the data, and the run passes.
C11_Witness ==
    \E e \in Ev :
      /\ opts.asyncValid = "data" /\ test.valid = JTrue /\ test.data = JFalse
      /\ e.proto = "rejected"
      /\ e.result.built /\ e.result.passed /\ e.ok

\* C17 as stated: for every finalized result the final equality assertion
\* succeeds exactly when the result has passed = TRUE.
C17_AssertAgreesWithPassed ==
    \A e \in Ev : e.result.built => (e.ok <=> e.result.passed)

\* C18: in the synchronous protocol the error details a run is classified
\* with are those its own validate call left on the validator: when the
\* classification is made, validator.errors still holds them, also when
\* the list repeats one validator instance and the runs interleave.
C18_ErrorsOfSameCall ==
    \A e \in Ev :
      e.proto = "sync" => e.given = verrors[validators[e.i]]

\* C18: two runs on one validator instance are suspended on the data file;
\* the second resumes first, returns false and leaves an error; the first
\* then returns true, leaves none and is classified with none.
C18_Witness ==
    /\ NV = 2 /\ validators[1] = validators[2]
    /\ test.dataFile /\ test.valid = JFalse /\ ~opts.async
    /\ runs[2].pc = "fulfilled"
    /\ \E e \in Ev :
         /\ e.i = 1 /\ e.proto = "sync" /\ e.raw = JTrue
         /\ e.given.nullish /\ e.result.built

\* C19 as stated: when the validator's promise rejects without an
\* error-detail list and the test case has no expected error, the result has
\* passed = FALSE and the run rejects, so that the leaf test fails.
C19_NoPassThroughException ==
    \A e \in Ev :
      e.proto = "exception" /\ test.error = JUndef =>
        /\ ~e.result.passed
        /\ ~e.ok
        /\ runs[e.i].pc = "rejected"

\* C12: wherever a registration goes through skipOrOnly the variant is
\* "only" when the filter's only is the boolean true, else "skip" when its
\* skip is the boolean true, else the unmodified primitive; at the top
\* level a list of names in options.only or options.skip selects nothing.
C12_ResolverChoice ==
    reg.call.via = "resolver" =>
      /\ reg.call.variant =
           (IF reg.call.filter.only = JTrue THEN "only"
            ELSE IF reg.call.filter.skip = JTrue THEN "skip"
            ELSE "normal")
      /\ reg.call.level = "top" =>
           /\ reg.call.variant = "only" <=> reg.only.kind = "true"
           /\ reg.call.variant = "skip" <=>
                reg.skip.kind = "true" /\ reg.only.kind # "true"

\* C12: a test group carries skip = true and only = true while
\* options.only is true, and is registered through the only variant.
C12_Witness ==
    /\ reg.call.level = "group"
    /\ reg.call.filter = [skip |-> JTrue, only |-> JTrue]
    /\ reg.only.kind = "true"
    /\ reg.call.variant = "only"

\* C13 as stated: a suite item named in the skip list is registered through
\* the skip variant.
C13_SkipListSkips ==
    (/\ reg.call.level = "item"
     /\ reg.skip.kind = "list" /\ reg.call.label[1] \in reg.skip.names)
      => reg.call.variant = "skip"

\* C13: the filter of a suite item has skip = true exactly when
\* options.skip is a list holding the item's name, and only = true exactly
\* when options.only is such a list, whatever the booleans of the options
\* are; the item is registered through the only variant when the only list
\* names it, else through the skip variant when the skip list names it,
\* else normally; and the test cases of an item registered through the skip
\* variant are registered below a skipped group.
C13_ItemFilter ==
    /\ reg.call.level = "item" =>
         LET name == reg.call.label[1]
             inSkip == reg.skip.kind = "list" /\ name \in reg.skip.names
             inOnly == reg.only.kind = "list" /\ name \in reg.only.names
         IN  /\ reg.call.filter.skip = (IF inSkip THEN JTrue ELSE JFalse)
             /\ reg.call.filter.only = (IF inOnly THEN JTrue ELSE JFalse)
             /\ reg.call.variant =
                  (IF inOnly THEN "only" ELSE IF inSkip THEN "skip" ELSE "normal")
    /\ reg.call.level = "test" =>
         LET name == Items[reg.k - (IF reg.pc = "groupdone" THEN 1 ELSE 0)]
             inSkip == reg.skip.kind = "list" /\ name \in reg.skip.names
             inOnly == reg.only.kind = "list" /\ name \in reg.only.names
         IN  /\ reg.path[3].level = "item"
             /\ inSkip /\ ~inOnly => reg.path[3].variant = "skip"
             /\ ~inSkip /\ ~inOnly => reg.path[3].variant = "normal"

\* C13: the item "s" is named in the skip list and in the only list, and is
\* registered through the only variant.
C13_Witness ==
    /\ reg.call.level = "item" /\ reg.call.label = <<"s">>
    /\ reg.skip.kind = "list" /\ "s" \in reg.skip.names
    /\ reg.only.kind = "list" /\ "s" \in reg.only.names
    /\ reg.call.variant = "only"

\* C15 as stated: the test cases of a group are never registered zero
\* times, and exactly once when group.schemas is absent or an empty list.
C15_NeverZero ==
    reg.pc = "groupdone" =>
      /\ reg.ran >= 1
      /\ reg.n <= 0 => reg.ran = 1

\* C15: when group.schemas is an array the test cases of the group are
\* registered once per schema, in list order, each below a nested group
\* labelled "schema " and the schema's description, else its id, else its
\* $ref, else "#" and its index: zero times for an empty array; when it is
\* not an array they are registered exactly once, with no nested group.
C15_SchemaExpansion ==
    /\ reg.pc = "groupdone" =>
         reg.ran = (IF reg.n = -1 THEN 1 ELSE reg.n)
    /\ reg.call.level = "schema" =>
         /\ reg.n > 0
         /\ reg.call.index = reg.i /\ reg.ran = reg.i
         /\ reg.call.label =
              (LET sch == reg.call.schema
               IN  IF sch.description # JUndef THEN <<"schema ", sch.description>>
                   ELSE IF sch.id # JUndef THEN <<"schema ", sch.id>>
                   ELSE IF sch.ref # JUndef THEN <<"schema ", sch.ref>>
                   ELSE <<"schema ", "#", reg.call.index>>)
    /\ reg.call.level = "test" =>
         IF reg.n = -1
           THEN Len(reg.path) = 5 /\ reg.path[4].level = "group"
           ELSE Len(reg.path) = 6 /\ reg.path[5].level = "schema"

\* C15: group.schemas is an empty list and the group is done without any
\* registration of its test cases.
C15_Witness ==
    reg.pc = "groupdone" /\ reg.n = 0 /\ reg.ran = 0 /\ reg.call.level = "group"

\* C16 as stated: every registration call goes through skipOrOnly.
C16_AllGated ==
    reg.call.level # "" => reg.call.via = "resolver"

\* C16: the top-level group, each suite item, each test group and each test
\* case are registered through the variant skipOrOnly selects for their own
\* filter; the group of a suite name and the nested group of a schema are
\* registered by opts.describe itself.
C16_GatedLevels ==
    /\ reg.call.level \in {"", "top", "suite", "item", "group", "schema", "test"}
    /\ reg.call.level \in {"top", "item", "group", "test"} =>
         /\ reg.call.via = "resolver"
         /\ reg.call.variant =
              (IF reg.call.filter.only = JTrue THEN "only"
               ELSE IF reg.call.filter.skip = JTrue THEN "skip"
               ELSE "normal")
    /\ reg.call.level \in {"suite", "schema"} =>
         reg.call.via = "direct" /\ reg.call.variant = "normal"

\* C16: the nested group of a schema is registered by opts.describe itself
\* below a test group registered through the skip variant.
C16_Witness ==
    /\ reg.call.level = "schema" /\ reg.call.via = "direct"
    /\ reg.call.variant = "normal"
    /\ reg.path[4].level = "group" /\ reg.path[4].variant = "skip"

\* The file named by the segments segs has been given its name.
Named(segs) == found.done /\ found.file = FileOf(segs)

\* The characters of x after its last dot; x itself when it has none.
AfterDot(x) ==
    LET dots == {i \in 1..Len(x) : x[i] = "."}
    IN  IF dots = {} THEN x
        ELSE SubSeq(x, 1 + (CHOOSE i \in dots : \A j \in dots : j <= i), Len(x))

\* C14 as stated: a file below at least one folder is named by its parent
\* folder, "/" and its basename without ".json", or by the basename alone
\* when hideFolder is that folder and "/", whatever the basename.
C14_FolderAndBasename ==
    \A segs \in Paths :
      Named(segs) /\ Len(segs) >= 2 =>
        LET base == segs[Len(segs)]
            parent == segs[Len(segs) - 1]
        IN  found.name =
              (IF found.hideFolder = parent \o <<"/">>
                 THEN base ELSE parent \o <<"/">> \o base)

\* C14: a file whose basename without ".json" holds a dot, or which lies
\* below no folder, is named by that basename alone, whatever hideFolder
\* is; any other file is named by the part of its parent folder's name that
\* follows the last dot of it (the whole name when it has no dot), "/" and
\* the basename, or by the basename alone when hideFolder is that part and
\* "/", or when that part is empty.
C14_DerivedName ==
    \A segs \in Paths :
      Named(segs) =>
        LET base == segs[Len(segs)]
        IN  IF Len(segs) = 1 \/ AfterDot(base) # base
              THEN found.name = base
              ELSE LET folder == AfterDot(segs[Len(segs) - 1])
                   IN  found.name =
                         (IF folder = <<>> \/ found.hideFolder = folder \o <<"/">>
                            THEN base ELSE folder \o <<"/">> \o base)

\* C14: the file a/b/c.d.json is named "c.d", without its folder.
C14_Witness ==
    /\ Named(<<(<<"a">>), (<<"b">>), (<<"c", ".", "d">>)>>)
    /\ found.hideFolder = <<>>
    /\ found.name = <<"c", ".", "d">>

====
